---- MODULE Spec2Model ----
(***************************************************************************)
(* A model of src/scrape_transcripts.py: the Motley Fool earnings-call     *)
(* transcript scraper (MotleyFoolScraper).                                 *)
(*                                                                         *)
(* Three specifications share the module:                                  *)
(*   Spec       the runner: run() executed MaxRuns times in succession     *)
(*              against a fixed remote source and an arbitrary store;      *)
(*   SpecParse  the traversal of the text nodes inside scrape_transcript;  *)
(*   SpecList   get_recent_transcripts applied to a listing page.          *)
(*                                                                         *)
(* Text is modelled in two ways.  File names, tickers and hash digests are *)
(* sequences of one-character strings, so that the substring test of       *)
(* transcript_exists and the f-string of generate_filename are computed.   *)
(* The text of a paragraph is abstracted to what the code reads of it:     *)
(* its length and which section markers its lower-cased form contains.     *)
(* A python dict is a TLA+ function from keys; an optional value is a      *)
(* sequence of length 0 (None) or 1.                                       *)
(***************************************************************************)
EXTENDS Integers, Sequences, FiniteSets, TLC

VARIABLES
    \* ---- the environment of a run (fixed once chosen)
    listing,          \* the listing page: "error" or its sequence of <a> links
    web,              \* the page served at each URL
    limit,            \* run(limit, ...)
    tickers,          \* run(..., tickers): None or a list of symbols
    \* ---- the store and the runner
    store,            \* TRANSCRIPTS_DIR: file name -> content
    clock,            \* datetime.now(), advanced by each save
    pc,               \* "idle" | "loop"
    runNo,            \* number of completed runs
    transcript_list,  \* run's local transcript_list[:limit]
    i,                \* position of the loop of run in transcript_list
    saved_files,      \* run's local saved_files
    log,              \* the lines run printed for the targets of this run
    summary,          \* the closing line of the last completed run
    returned,         \* what each completed run returned, and the store then
    \* ---- the traversal inside scrape_transcript
    doc,              \* the document being parsed
    pos,              \* number of paragraphs visited
    current_section,
    transcript_parts,
    prepared_remarks,
    qa_section,
    scrape_result,    \* "pending", or the boxed return value
    \* ---- get_recent_transcripts
    links,            \* the <a href> elements of the listing page
    list_limit,
    list_result       \* "pending", or the boxed return value

runVars   == <<listing, web, limit, tickers, store, clock, pc, runNo,
               transcript_list, i, saved_files, log, summary, returned>>
parseVars == <<doc, pos, current_section, transcript_parts, prepared_remarks,
               qa_section, scrape_result>>
listVars  == <<links, list_limit, list_result>>
vars      == <<runVars, parseVars, listVars>>

----------------------------------------------------------------------------
(* Bounds of the model *)

MaxRuns  == 2     \* runs executed in succession
MaxLimit == 2     \* largest limit passed to run / get_recent_transcripts
MaxNodes == 3     \* paragraphs of a document in SpecParse
MaxLinks == 3     \* links of a listing page in SpecList

(* Program constants *)

MinTranscriptLen == 500   \* len(full_transcript) < 500
HashLen          == 6     \* hexdigest()[:6]
SepLen           == 2     \* len("\n\n")

BASE_URL == "https://www.fool.com"

\* datetime.now()
Now == [year |-> 2026, month |-> 11, day |-> 2]

----------------------------------------------------------------------------
(* Optional values and dicts *)

None      == <<>>
Some(v)   == <<v>>
IsNone(o) == o = <<>>
Val(o)    == o[1]

\* dict.get(key, default): the default is used only when the key is ABSENT;
\* a key present with the value None yields None.
DictGet(d, k, default) == IF k \in DOMAIN d THEN d[k] ELSE default

----------------------------------------------------------------------------
(* Character strings *)

DigitChars == <<"0", "1", "2", "3", "4", "5", "6", "7", "8", "9">>

RECURSIVE IntStr(_)
IntStr(n) ==
    IF n < 10 THEN <<DigitChars[n + 1]>>
    ELSE IntStr(n \div 10) \o <<DigitChars[(n % 10) + 1]>>

\* str() of an optional integer, as an f-string formats it
Str(o) == IF IsNone(o) THEN <<"N", "o", "n", "e">> ELSE IntStr(Val(o))

\* needle in hay
Contains(hay, needle) ==
    \E k \in 0..(Len(hay) - Len(needle)) :
        SubSeq(hay, k + 1, k + Len(needle)) = needle

EndsWith(s, suffix) ==
    /\ Len(s) >= Len(suffix)
    /\ SubSeq(s, Len(s) - Len(suffix) + 1, Len(s)) = suffix

UpperChar(c) ==
    CASE c = "a" -> "A" [] c = "p" -> "P" [] c = "l" -> "L"
      [] c = "m" -> "M" [] c = "s" -> "S" [] c = "f" -> "F"
      [] c = "t" -> "T"
      [] OTHER -> c

\* str.upper()
Upper(s) == [k \in 1..Len(s) |-> UpperChar(s[k])]

DotJson == <<".", "j", "s", "o", "n">>
AAPL    == <<"A", "A", "P", "L">>
MSFT    == <<"M", "S", "F", "T">>
UNKNOWN == <<"U", "N", "K", "N", "O", "W", "N">>

----------------------------------------------------------------------------
(* URLs and their MD5 digests *)

\* An href is relative (host = "") or absolute.
Href(host, path, date) == [host |-> host, path |-> path, date |-> date]

HrefA    == Href("", "/earnings/call-transcripts/2024/10/31/a", Some(<<2024, 10, 31>>))
HrefAabs == Href(BASE_URL, "/earnings/call-transcripts/2024/10/31/a", Some(<<2024, 10, 31>>))
HrefB    == Href("", "/earnings/call-transcripts/b", None)
HrefC    == Href("", "/earnings/call-transcripts/c", None)
HrefNews == Href("", "/investing/news", None)

\* urljoin(BASE_URL, href)
urljoin(base, href) ==
    IF href.host = "" THEN base \o href.path ELSE href.host \o href.path

UrlA == urljoin(BASE_URL, HrefA)
UrlB == urljoin(BASE_URL, HrefB)
UrlC == urljoin(BASE_URL, HrefC)
Urls == {UrlA, UrlB, UrlC}

\* '/earnings/call-transcript' in href
IsTranscriptHref(href) == href # HrefNews

\* hashlib.md5(url.encode()).hexdigest(), shortened to 8 digits.  The digests
\* of UrlA and UrlC agree on their first six digits: a prefix collision.
md5hex(url) ==
    CASE url = UrlA -> <<"a", "b", "1", "2", "c", "d", "0", "7">>
      [] url = UrlB -> <<"0", "f", "3", "e", "9", "a", "4", "4">>
      [] url = UrlC -> <<"a", "b", "1", "2", "c", "d", "e", "5">>
      [] OTHER      -> <<"d", "4", "1", "d", "8", "c", "d", "9">>

\* hashlib.md5(url.encode()).hexdigest()[:6]
url_hash(url) == SubSeq(md5hex(url), 1, HashLen)

----------------------------------------------------------------------------
(* Titles.  A title is abstracted to what the three regular expressions of   *)
(* the code capture from it: the company in front of a parenthesised ticker, *)
(* the ticker, and the "Q<n> <yyyy>" period.                                 *)

Title(company, ticker, period) ==
    [company |-> company, ticker |-> ticker, period |-> period]

EmptyTitle   == Title("", None, None)                           \* ""
TitleFull    == Title("Apple", Some(AAPL), Some(<<4, 2024>>))   \* "Apple (AAPL) Q4 2024 Earnings Call Transcript"
TitleNoQ     == Title("Apple", Some(AAPL), None)                \* "Apple (AAPL) Earnings Call Transcript"
TitleMsft    == Title("Microsoft", Some(MSFT), Some(<<1, 2025>>))
TitlePlain   == Title("Earnings call", None, None)              \* "Earnings call"

\* re.search(r'\(([A-Z]{1,5})\)', title): group(1) or "UNKNOWN"
TickerOf(title) == IF IsNone(title.ticker) THEN UNKNOWN ELSE Val(title.ticker)

\* re.search(r'^(.+?)\s*\([A-Z]{1,5}\)', title): group(1).strip() or ""
CompanyOf(title) == IF IsNone(title.ticker) THEN "" ELSE title.company

\* re.search(r'Q(\d)\s+(\d{4})', title): int(group(1)) or None
QuarterOf(title) == IF IsNone(title.period) THEN None ELSE Some(Val(title.period)[1])

\* re.search(r'Q(\d)\s+(\d{4})', title): int(group(2)) or None
YearOf(title) == IF IsNone(title.period) THEN None ELSE Some(Val(title.period)[2])

----------------------------------------------------------------------------
(* Paragraphs.  p.get_text(strip=True) of the k-th <p>/<h2>/<h3> element is  *)
(* abstracted to: its place k in the document, its length, and whether its   *)
(* lower-cased text contains a Q&A marker or a prepared-remarks marker.      *)

Node(id, qa, prep, len) == [id |-> id, qa |-> qa, prep |-> prep, len |-> len]

\* 'q&a' in text_lower or 'question-and-answer' in text_lower or
\* 'questions and answers' in text_lower
HasQaMarker(text) == text.qa

\* 'prepared remarks' in text_lower or 'opening remarks' in text_lower
HasPreparedMarker(text) == text.prep

\* not text
IsEmptyText(text) == text.len = 0

\* "Detect section transitions": the if / elif on the markers of the text
NextSection(section, text) ==
    IF HasQaMarker(text) THEN "qa"
    ELSE IF HasPreparedMarker(text) THEN "prepared"
    ELSE section

\* The state of the traversal: the section and the three accumulators.
Trav(section, parts, prepared, qa) ==
    [section |-> section, parts |-> parts, prepared |-> prepared, qa |-> qa]

TravInit == Trav("intro", <<>>, <<>>, <<>>)

\* a variant that drops the intro paragraphs from both accumulators
AccumulateDropIntro(section, t, text) ==
    IF section = "qa"
    THEN Trav(section, Append(t.parts, text), t.prepared, Append(t.qa, text))
    ELSE IF section = "prepared"
    THEN Trav(section, Append(t.parts, text), Append(t.prepared, text), t.qa)
    ELSE Trav(section, Append(t.parts, text), t.prepared, t.qa)

\* transcript_parts.append(text), then qa_section or prepared_remarks
Accumulate(section, t, text) ==
    IF section = "qa"
    THEN Trav(section, Append(t.parts, text), t.prepared, Append(t.qa, text))
    ELSE Trav(section, Append(t.parts, text), Append(t.prepared, text), t.qa)

\* One iteration of "for p in paragraphs".
VisitStep(t, text) ==
    IF IsEmptyText(text) THEN t
    ELSE Accumulate(NextSection(t.section, text), t, text)

RECURSIVE Traverse(_, _)
Traverse(t, paragraphs) ==
    IF paragraphs = <<>> THEN t
    ELSE Traverse(VisitStep(t, Head(paragraphs)), Tail(paragraphs))

RECURSIVE SumLen(_)
SumLen(parts) ==
    IF parts = <<>> THEN 0 ELSE Head(parts).len + SumLen(Tail(parts))

\* a variant that measures the texts without the separators between them
JoinLenTextOnly(parts) == SumLen(parts)

\* len("\n\n".join(parts))
JoinLen(parts) ==
    IF parts = <<>> THEN 0 ELSE SumLen(parts) + SepLen * (Len(parts) - 1)

\* not full_transcript or len(full_transcript) < 500
TooShort(full_len) == full_len = 0 \/ full_len < MinTranscriptLen

----------------------------------------------------------------------------
(* Pages *)

\* A parsed page: the text of its <h1> and the paragraphs of its content area.
Document(title, paragraphs) ==
    [kind |-> "document", title |-> title, paragraphs |-> paragraphs]

HttpError == [kind |-> "http_error"]    \* requests.RequestException
ParseError == [kind |-> "parse_error"]  \* any other exception while parsing
NoContent == [kind |-> "no_content"]    \* no <main>, <article> or article body

\* The dict scrape_transcript returns.  word_count is a function of
\* "transcript" that no operation reads: it is left out.
Record(title, url, t) ==
    [ticker           |-> TickerOf(title),
     company          |-> CompanyOf(title),
     title            |-> title,
     year             |-> YearOf(title),
     quarter          |-> QuarterOf(title),
     url              |-> url,
     transcript       |-> t.parts,
     prepared_remarks |-> t.prepared,
     qa_section       |-> t.qa,
     source           |-> "motley-fool"]

\* The return of scrape_transcript once the paragraphs are traversed.
ScrapeReturn(title, url, t) ==
    IF TooShort(JoinLen(t.parts)) THEN None ELSE Some(Record(title, url, t))

\* scrape_transcript(url) on the page served at url: None or the record.
scrape_transcript(url, page) ==
    IF page.kind # "document" THEN None
    ELSE ScrapeReturn(page.title, url, Traverse(TravInit, page.paragraphs))

----------------------------------------------------------------------------
(* The store: generate_filename, transcript_exists, save_transcript *)

\* a variant that names the file by ticker and period alone
FileNameWithoutHash(transcript) ==
    DictGet(transcript, "ticker", UNKNOWN)
        \o <<"_">> \o Str(DictGet(transcript, "year", Some(Now.year)))
        \o <<"_", "Q">> \o Str(DictGet(transcript, "quarter", Some(0)))
        \o DotJson

\* f"{ticker}_{year}_Q{quarter}_{url_hash}.json"
generate_filename(transcript) ==
    DictGet(transcript, "ticker", UNKNOWN)
        \o <<"_">> \o Str(DictGet(transcript, "year", Some(Now.year)))
        \o <<"_", "Q">> \o Str(DictGet(transcript, "quarter", Some(0)))
        \o <<"_">> \o url_hash(DictGet(transcript, "url", ""))
        \o DotJson

\* TRANSCRIPTS_DIR.glob("*.json")
GlobJson(files) == {f \in DOMAIN files : EndsWith(f, DotJson)}

\* a variant that looks the hash up only right in front of the extension
ExistsBySuffix(url, files) ==
    \E f \in GlobJson(files) : EndsWith(f, url_hash(url) \o DotJson)

\* a variant that compares with the whole digest, which no file name holds
ExistsByFullDigest(url, files) ==
    \E f \in GlobJson(files) : Contains(f, md5hex(url))

\* transcript_exists(url), on the files of the store
transcript_exists(url, files) ==
    \E f \in GlobJson(files) : Contains(f, url_hash(url))

\* str(TRANSCRIPTS_DIR / filename)
PathOf(filename) == <<"transcripts", filename>>

\* What save_transcript writes: the record, stamped.
Stamped(transcript, now) ==
    [k \in DOMAIN transcript \cup {"scraped_at", "filename"} |->
        IF k = "scraped_at" THEN now
        ELSE IF k = "filename" THEN generate_filename(transcript)
        ELSE transcript[k]]

\* open(filepath, "w"): the file is created, or truncated and rewritten
WriteFile(files, name, content) ==
    [f \in DOMAIN files \cup {name} |-> IF f = name THEN content ELSE files[f]]

\* The store after save_transcript(transcript).
save_transcript(files, transcript, now) ==
    WriteFile(files, generate_filename(transcript), Stamped(transcript, now))

----------------------------------------------------------------------------
(* get_recent_transcripts *)

Link(href, text) == [href |-> href, text |-> text]

\* The listing page: a transport error, or the <a href> elements in order.
ListingError     == [ok |-> FALSE, links |-> <<>>]
ListingPage(all) == [ok |-> TRUE, links |-> all]

\* Position of href among the keys of the dict, 0 when absent.
KeyIndex(d, href) ==
    IF \E k \in 1..Len(d) : d[k].href = href
    THEN CHOOSE k \in 1..Len(d) : d[k].href = href
    ELSE 0

\* One iteration of "for link in links".  url_to_link is an insertion-ordered
\* dict: a new key goes last, an assignment to a key keeps its place.
GroupStep(d, link) ==
    LET k == KeyIndex(d, link.href) IN
    IF k = 0 THEN Append(d, link)
    ELSE IF link.text # EmptyTitle /\ d[k].text = EmptyTitle
    THEN [d EXCEPT ![k] = link]
    ELSE d

RECURSIVE GroupLinks(_, _)
GroupLinks(d, ls) ==
    IF ls = <<>> THEN d ELSE GroupLinks(GroupStep(d, Head(ls)), Tail(ls))

\* slug.replace('-', ' ').title(): a title with no parenthesised ticker
SlugTitle(href) == Title(href.path, None, None)

\* The dict appended for one (href, link) of url_to_link.
TargetOf(link) ==
    LET title == IF link.text = EmptyTitle THEN SlugTitle(link.href)
                 ELSE link.text IN
    [url    |-> urljoin(BASE_URL, link.href),
     title  |-> title,
     ticker |-> TickerOf(title),
     date   |-> IF IsNone(link.href.date)
                THEN <<Now.year, Now.month, Now.day>>
                ELSE Val(link.href.date)]

Min(a, b) == IF a < b THEN a ELSE b

\* seq[:n]
Take(seq, n) == SubSeq(seq, 1, Min(n, Len(seq)))

GroupedTargets(page, lim) ==
    LET matching == SelectSeq(page.links, LAMBDA l : IsTranscriptHref(l.href))
        grouped  == GroupLinks(<<>>, matching)
        kept     == Take(grouped, lim)
    IN  [k \in 1..Len(kept) |-> TargetOf(kept[k])]

\* get_recent_transcripts(limit) on the listing page
get_recent_transcripts(page, lim) ==
    IF ~page.ok THEN <<>> ELSE GroupedTargets(page, lim)

----------------------------------------------------------------------------
(* The environments the specifications draw from *)

Pending     == [done |-> FALSE, value |-> None]
Returned(v) == [done |-> TRUE, value |-> v]

\* A document long enough to be kept: an intro paragraph, then the Q&A.
LongParagraphs  == <<Node(1, FALSE, FALSE, 300), Node(2, TRUE, FALSE, 300)>>
ShortParagraphs == <<Node(1, FALSE, TRUE, 100)>>

PageChoices ==
    {HttpError, ParseError, NoContent,
     Document(TitleFull, LongParagraphs),
     Document(TitleNoQ, LongParagraphs),
     Document(TitleMsft, ShortParagraphs)}

ListingChoices ==
    {ListingError,
     ListingPage(<<Link(HrefA, TitleFull), Link(HrefNews, TitlePlain),
                   Link(HrefB, TitleMsft), Link(HrefC, EmptyTitle)>>),
     ListingPage(<<Link(HrefA, EmptyTitle), Link(HrefAabs, TitleFull),
                   Link(HrefC, TitleFull)>>),
     ListingPage(<<Link(HrefB, TitleMsft), Link(HrefA, TitleFull)>>)}

\* Files a store may hold before the first run.
TickFile == <<"T", "I", "C", "K", "_", "2", "0", "2", "4", "_", "Q", "1", "_">>
                \o url_hash(UrlA) \o DotJson
OldFile  == url_hash(UrlB) \o <<"_", "o", "l", "d">> \o DotJson
TextFile == url_hash(UrlB) \o <<".", "t", "x", "t">>

Foreign == [source |-> "foreign"]

StoreOf(names) == [f \in names |-> Foreign]

InitialStores ==
    {StoreOf({}), StoreOf({TickFile}), StoreOf({OldFile}),
     StoreOf({TextFile}), StoreOf({TickFile, OldFile, TextFile})}

TickerChoices == {None, Some(<<>>), Some(<< <<"a", "a", "p", "l">> >>)}

\* The texts a paragraph may have: empty, or of a length around the limit,
\* with or without each kind of marker.
TextChoices ==
    {Node(0, FALSE, FALSE, 0)} \cup
    {Node(0, qa, prep, len) : qa \in BOOLEAN, prep \in BOOLEAN,
                              len \in {248, 249, 499, 500}}

\* The paragraphs of a page, each with its place in the document.
Paragraphs(texts) ==
    [k \in 1..Len(texts) |->
        Node(k, texts[k].qa, texts[k].prep, texts[k].len)]

LinkChoices ==
    {Link(h, t) : h \in {HrefA, HrefAabs, HrefB, HrefNews},
                  t \in {EmptyTitle, TitleFull, TitleMsft}}

RunIdle ==
    /\ listing = ListingError
    /\ web = [u \in Urls |-> HttpError]
    /\ limit = 1
    /\ tickers = None
    /\ store = StoreOf({})
    /\ clock = 0
    /\ pc = "idle"
    /\ runNo = 0
    /\ transcript_list = <<>>
    /\ i = 1
    /\ saved_files = <<>>
    /\ log = <<>>
    /\ summary = <<>>
    /\ returned = <<>>

ParseIdle ==
    /\ doc = NoContent
    /\ pos = 0
    /\ current_section = "intro"
    /\ transcript_parts = <<>>
    /\ prepared_remarks = <<>>
    /\ qa_section = <<>>
    /\ scrape_result = Pending

ListIdle ==
    /\ links = ListingError
    /\ list_limit = 0
    /\ list_result = Pending

----------------------------------------------------------------------------
(* Spec: run(limit, tickers), executed MaxRuns times in succession *)

Init ==
    /\ listing \in ListingChoices
    /\ web \in [Urls -> PageChoices]
    /\ limit \in 1..MaxLimit
    /\ tickers \in TickerChoices
    /\ store \in InitialStores
    /\ clock = 0
    /\ pc = "idle"
    /\ runNo = 0
    /\ transcript_list = <<>>
    /\ i = 1
    /\ saved_files = <<>>
    /\ log = <<>>
    /\ summary = <<>>
    /\ returned = <<>>
    /\ ParseIdle
    /\ ListIdle

\* [t for t in transcript_list if t.get("ticker") in tickers_upper]
FilterTickers(list, wanted) ==
    IF IsNone(wanted) \/ Val(wanted) = <<>> THEN list
    ELSE LET tickers_upper == [k \in 1..Len(Val(wanted)) |-> Upper(Val(wanted)[k])]
         IN  SelectSeq(list, LAMBDA t :
                 \E k \in 1..Len(tickers_upper) : tickers_upper[k] = t.ticker)

\* The entry of run up to the loop: the listing, the filter, the slice.
RunStart ==
    /\ pc = "idle"
    /\ runNo < MaxRuns
    /\ transcript_list' =
           Take(FilterTickers(get_recent_transcripts(listing, limit * 2), tickers),
                limit)
    /\ saved_files' = <<>>
    /\ log' = <<>>
    /\ i' = 1
    /\ pc' = "loop"
    /\ UNCHANGED <<listing, web, limit, tickers, store, clock, runNo, summary,
                   returned, parseVars, listVars>>

InLoop == pc = "loop" /\ i <= Len(transcript_list)

\* if self.transcript_exists(url): continue
SkipExisting ==
    /\ InLoop
    /\ transcript_exists(transcript_list[i].url, store)
    /\ log' = Append(log, [url |-> transcript_list[i].url, line |-> "skipping"])
    /\ i' = i + 1
    /\ UNCHANGED <<listing, web, limit, tickers, store, clock, pc, runNo,
                   transcript_list, saved_files, summary, returned,
                   parseVars, listVars>>

\* The line scrape_transcript prints before it returns None.
FailureLine(page) ==
    CASE page.kind = "http_error"  -> "error fetching"
      [] page.kind = "parse_error" -> "error parsing"
      [] page.kind = "no_content"  -> "could not find content area"
      [] OTHER                     -> "transcript too short"

\* a variant in which the failure of one target ends the loop
ScrapeFailAborts ==
    /\ InLoop
    /\ ~transcript_exists(transcript_list[i].url, store)
    /\ IsNone(scrape_transcript(transcript_list[i].url, web[transcript_list[i].url]))
    /\ log' = Append(log, [url |-> transcript_list[i].url,
                           line |-> FailureLine(web[transcript_list[i].url])])
    /\ i' = Len(transcript_list) + 1
    /\ UNCHANGED <<listing, web, limit, tickers, store, clock, pc, runNo,
                   transcript_list, saved_files, summary, returned,
                   parseVars, listVars>>

\* transcript = self.scrape_transcript(url) returned None: next target
ScrapeFail ==
    /\ InLoop
    /\ ~transcript_exists(transcript_list[i].url, store)
    /\ IsNone(scrape_transcript(transcript_list[i].url, web[transcript_list[i].url]))
    /\ log' = Append(log, [url |-> transcript_list[i].url,
                           line |-> FailureLine(web[transcript_list[i].url])])
    /\ i' = i + 1
    /\ UNCHANGED <<listing, web, limit, tickers, store, clock, pc, runNo,
                   transcript_list, saved_files, summary, returned,
                   parseVars, listVars>>

\* filepath = self.save_transcript(transcript); saved_files.append(filepath)
ScrapeSave ==
    /\ InLoop
    /\ ~transcript_exists(transcript_list[i].url, store)
    /\ LET got == scrape_transcript(transcript_list[i].url,
                                    web[transcript_list[i].url])
       IN  /\ ~IsNone(got)
           /\ store' = save_transcript(store, Val(got), clock + 1)
           /\ saved_files' =
                  Append(saved_files, PathOf(generate_filename(Val(got))))
    /\ clock' = clock + 1
    /\ log' = Append(log, [url |-> transcript_list[i].url, line |-> "saved"])
    /\ i' = i + 1
    /\ UNCHANGED <<listing, web, limit, tickers, pc, runNo, transcript_list,
                   summary, returned, parseVars, listVars>>

\* a variant whose closing line counts the targets, not the files saved
RunFinishCountsTargets ==
    /\ pc = "loop"
    /\ i > Len(transcript_list)
    /\ summary' = Append(summary, [saved |-> Len(transcript_list)])
    /\ returned' = Append(returned, [files   |-> saved_files,
                                     names   |-> DOMAIN store,
                                     targets |-> transcript_list,
                                     lines   |-> log])
    /\ runNo' = runNo + 1
    /\ pc' = "idle"
    /\ UNCHANGED <<listing, web, limit, tickers, store, clock, transcript_list,
                   i, saved_files, log, parseVars, listVars>>

\* print(f"... Saved {len(saved_files)} new transcripts."); return saved_files
RunFinish ==
    /\ pc = "loop"
    /\ i > Len(transcript_list)
    /\ summary' = Append(summary, [saved |-> Len(saved_files)])
    /\ returned' = Append(returned, [files   |-> saved_files,
                                     names   |-> DOMAIN store,
                                     targets |-> transcript_list,
                                     lines   |-> log])
    /\ runNo' = runNo + 1
    /\ pc' = "idle"
    /\ UNCHANGED <<listing, web, limit, tickers, store, clock, transcript_list,
                   i, saved_files, log, parseVars, listVars>>

Next == RunStart \/ SkipExisting \/ ScrapeFail \/ ScrapeSave \/ RunFinish

Spec == Init /\ [][Next]_vars

----------------------------------------------------------------------------
(* SpecParse: scrape_transcript(UrlA), one paragraph at a time *)

InitParse ==
    /\ \/ doc \in {HttpError, ParseError, NoContent}
       \/ \E n \in 0..MaxNodes : \E texts \in [1..n -> TextChoices] :
              doc = Document(TitleFull, Paragraphs(texts))
    /\ pos = 0
    /\ current_section = "intro"
    /\ transcript_parts = <<>>
    /\ prepared_remarks = <<>>
    /\ qa_section = <<>>
    /\ scrape_result = Pending
    /\ RunIdle
    /\ ListIdle

\* The locals of the traversal, as the record the operators work on.
TravNow == Trav(current_section, transcript_parts, prepared_remarks, qa_section)

\* The request raised, the parser raised, or no content area was found.
FetchFails ==
    /\ ~scrape_result.done
    /\ doc.kind # "document"
    /\ scrape_result' = Returned(scrape_transcript(UrlA, doc))
    /\ UNCHANGED <<doc, pos, current_section, transcript_parts,
                   prepared_remarks, qa_section, runVars, listVars>>

\* One iteration of "for p in paragraphs".
VisitNode ==
    /\ ~scrape_result.done
    /\ doc.kind = "document"
    /\ pos < Len(doc.paragraphs)
    /\ LET t == VisitStep(TravNow, doc.paragraphs[pos + 1]) IN
           /\ current_section' = t.section
           /\ transcript_parts' = t.parts
           /\ prepared_remarks' = t.prepared
           /\ qa_section' = t.qa
    /\ pos' = pos + 1
    /\ UNCHANGED <<doc, scrape_result, runVars, listVars>>

\* After the loop: the join, the length test, the return.
FinishScrape ==
    /\ ~scrape_result.done
    /\ doc.kind = "document"
    /\ pos = Len(doc.paragraphs)
    /\ scrape_result' = Returned(ScrapeReturn(doc.title, UrlA, TravNow))
    /\ UNCHANGED <<doc, pos, current_section, transcript_parts,
                   prepared_remarks, qa_section, runVars, listVars>>

NextParse == FetchFails \/ VisitNode \/ FinishScrape

SpecParse == InitParse /\ [][NextParse]_vars

----------------------------------------------------------------------------
(* SpecList: get_recent_transcripts(list_limit) on a listing page *)

InitList ==
    /\ \/ links = ListingError
       \/ \E n \in 0..MaxLinks : \E ls \in [1..n -> LinkChoices] :
              links = ListingPage(ls)
    /\ list_limit \in 0..MaxLimit
    /\ list_result = Pending
    /\ RunIdle
    /\ ParseIdle

ListCall ==
    /\ ~list_result.done
    /\ list_result' = Returned(get_recent_transcripts(links, list_limit))
    /\ UNCHANGED <<links, list_limit, runVars, parseVars>>

NextList == ListCall

SpecList == InitList /\ [][NextList]_vars

----------------------------------------------------------------------------
(* Properties of the runner (Spec) *)

FailureLines == {"error fetching", "error parsing",
                 "could not find content area", "transcript too short"}

\* Files of the store that a run of the scraper wrote.
Scraped(files) == {f \in DOMAIN files : "scraped_at" \in DOMAIN files[f]}

CountLines(lines, kinds) == Cardinality({k \in 1..Len(lines) : lines[k].line \in kinds})

\* C1: a run that follows another run, with the same arguments and an
\* unchanged remote source, returns an empty list of saved files and leaves
\* the set of files of the store as the run before it left it.
C1_SecondRunSavesNothing ==
    \A k \in 2..Len(returned) :
        /\ returned[k].files = <<>>
        /\ returned[k].names = returned[k - 1].names

\* A second run has returned after a first run that saved a file.
C1_Witness ==
    /\ Len(returned) >= 2
    /\ returned[1].files # <<>>

\* C2: while run is at a target and the store holds a *.json file whose name
\* contains the six-digit hash of the target's URL, the step run takes skips
\* the target: the store, the clock and the saved list stay as they are and
\* the line printed is the skip line, not one of a fetch.
C2_HashInStoreSkips ==
    [][(InLoop /\ \E f \in DOMAIN store :
                      /\ EndsWith(f, DotJson)
                      /\ Contains(f, SubSeq(md5hex(transcript_list[i].url), 1, HashLen)))
        => /\ store' = store
           /\ clock' = clock
           /\ saved_files' = saved_files
           /\ i' = i + 1
           /\ log' = Append(log, [url |-> transcript_list[i].url,
                                  line |-> "skipping"])]_vars

\* A target guessed as AAPL was skipped because of a file named after another
\* ticker, year and quarter, and one because of a file that holds the hash in
\* front.
C2_Witness ==
    /\ pc = "loop"
    /\ \E k \in 1..Len(log) :
           /\ log[k].line = "skipping"
           /\ transcript_list[k].ticker = AAPL
           /\ TickFile \in DOMAIN store
           /\ Scraped(store) = {}

\* C3: a target whose fetch fails leaves nothing saved, and the loop goes on:
\* inside the loop one line has been printed for every target before the
\* current one, and a run that returned has handled every target of its list,
\* each one skipped (its hash is in the store), failed (its page yields no
\* record) or saved (its file is in the returned list).
C3_FailureIsolated ==
    /\ pc = "loop" =>
           /\ Len(log) = i - 1
           /\ \A j \in 1..Len(log) : log[j].url = transcript_list[j].url
           /\ Len(saved_files) = CountLines(log, {"saved"})
    /\ \A k \in 1..Len(returned) :
           LET r == returned[k] IN
           /\ Len(r.lines) = Len(r.targets)
           /\ Len(r.files) = CountLines(r.lines, {"saved"})
           /\ \A j \in 1..Len(r.lines) :
                  /\ r.lines[j].url = r.targets[j].url
                  /\ r.lines[j].line \in FailureLines =>
                         web[r.targets[j].url].kind # "document"
                             \/ web[r.targets[j].url].paragraphs = ShortParagraphs
                  /\ r.lines[j].line = "skipping" =>
                         \E f \in r.names :
                             Contains(f, SubSeq(md5hex(r.targets[j].url), 1, HashLen))
                  /\ r.lines[j].line = "saved" =>
                         \E m \in 1..Len(r.files) :
                             /\ r.files[m][2] \in r.names
                             /\ store[r.files[m][2]].url = r.targets[j].url

\* A run returned in which a target failed and a later target was saved.
C3_Witness ==
    \E k \in 1..Len(returned) :
        \E a, b \in 1..Len(returned[k].lines) :
            /\ a < b
            /\ returned[k].lines[a].line \in FailureLines
            /\ returned[k].lines[b].line = "saved"

\* C5: no step removes a file of the store or changes its content, and a
\* step that saves a file saves it under a name the store did not hold.
C5_WriteOnce ==
    [][/\ \A f \in DOMAIN store : f \in DOMAIN store' /\ store'[f] = store[f]
       /\ Len(saved_files') > Len(saved_files) =>
              saved_files'[Len(saved_files')][2] \notin DOMAIN store]_vars

\* A later run is under way over a store that holds a file an earlier run
\* wrote, and has met that file.
C5_Witness ==
    /\ runNo >= 1
    /\ pc = "loop"
    /\ Scraped(store) # {}
    /\ \E k \in 1..Len(log) : log[k].line = "skipping"

\* C6 (as claimed): a record scraped from a page whose title holds no
\* "Q<n> <yyyy>" is saved under {TICKER}_{current year}_Q0_{hash6}.json.
C6_FallbackFileName ==
    \A f \in Scraped(store) :
        IsNone(store[f].quarter) =>
            f = store[f].ticker \o <<"_">> \o IntStr(Now.year) \o <<"_", "Q", "0", "_">>
                    \o SubSeq(md5hex(store[f].url), 1, HashLen) \o DotJson

----------------------------------------------------------------------------
(* Properties of the traversal (SpecParse) *)

\* The non-empty paragraphs among the first n of the document, in order.
KeptUpTo(n) == SelectSeq(SubSeq(doc.paragraphs, 1, n), LAMBDA p : p.len > 0)

Ids(seq) == {seq[k].id : k \in 1..Len(seq)}

Increasing(seq) == \A a, b \in 1..Len(seq) : a < b => seq[a].id < seq[b].id

\* Length of the texts of seq joined by "\n\n".
JoinedLength(seq) ==
    IF Len(seq) = 0 THEN 0 ELSE SumLen(seq) + 2 * (Len(seq) - 1)

\* C4 (as claimed): once a paragraph with a Q&A marker has been visited the
\* section is qa and stays qa, so that paragraph and every paragraph after it
\* is in the qa accumulator.
C4_QaIsSticky ==
    \A a \in 1..Len(transcript_parts) :
        transcript_parts[a].qa =>
            /\ current_section = "qa"
            /\ \A b \in a..Len(transcript_parts) :
                   \E m \in 1..Len(qa_section) : qa_section[m] = transcript_parts[b]

\* C7: scrape_transcript returns None when the texts of the non-empty
\* paragraphs, joined by "\n\n", have a length of 0..499, and returns a
\* record that carries them all when that length is 500 or more.
C7_LengthBoundary ==
    (scrape_result.done /\ doc.kind = "document") =>
        LET kept == KeptUpTo(Len(doc.paragraphs))
            n    == JoinedLength(kept)
        IN  /\ n \in 0..499 => IsNone(scrape_result.value)
            /\ n >= 500 =>
                   /\ ~IsNone(scrape_result.value)
                   /\ Val(scrape_result.value).transcript = kept

\* Two paragraphs of 249 characters each, 500 with the separator, are kept.
C7_Witness ==
    /\ scrape_result.done
    /\ doc.kind = "document"
    /\ Len(transcript_parts) = 2
    /\ SumLen(transcript_parts) = 498
    /\ ~IsNone(scrape_result.value)

\* C10: at every point of the traversal the parts are the non-empty
\* paragraphs visited so far, in document order; the prepared and the qa
\* accumulator are disjoint, each in document order, and together hold every
\* part; and the step that visits a non-empty paragraph appends it to qa when
\* the section, updated by that paragraph, is qa, and to prepared otherwise.
\* The record returned carries all the parts as its transcript.
C10_SectionPartition ==
    /\ [](doc.kind = "document" =>
            /\ transcript_parts = KeptUpTo(pos)
            /\ Len(prepared_remarks) + Len(qa_section) = Len(transcript_parts)
            /\ Ids(prepared_remarks) \cap Ids(qa_section) = {}
            /\ Ids(prepared_remarks) \cup Ids(qa_section) = Ids(transcript_parts)
            /\ Increasing(prepared_remarks)
            /\ Increasing(qa_section)
            /\ (scrape_result.done /\ ~IsNone(scrape_result.value)) =>
                   /\ Val(scrape_result.value).transcript = KeptUpTo(Len(doc.paragraphs))
                   /\ Val(scrape_result.value).prepared_remarks = prepared_remarks
                   /\ Val(scrape_result.value).qa_section = qa_section)
    /\ [][(pos' = pos + 1 /\ doc.paragraphs[pos'].len > 0) =>
            IF current_section' = "qa"
            THEN /\ qa_section' = Append(qa_section, doc.paragraphs[pos'])
                 /\ prepared_remarks' = prepared_remarks
            ELSE /\ prepared_remarks' = Append(prepared_remarks, doc.paragraphs[pos'])
                 /\ qa_section' = qa_section]_vars

\* A record was returned whose paragraphs went to both accumulators, an empty
\* paragraph having been passed over.
C10_Witness ==
    /\ scrape_result.done
    /\ ~IsNone(scrape_result.value)
    /\ prepared_remarks # <<>>
    /\ qa_section # <<>>
    /\ Len(transcript_parts) < Len(doc.paragraphs)

----------------------------------------------------------------------------
(* Properties of the lister (SpecList) *)

\* The links of the page that get_recent_transcripts looks at.
Matching == SelectSeq(links.links, LAMBDA l : IsTranscriptHref(l.href))

\* Place of the first matching link that satisfies same(link), 0 if none.
FirstWhere(same(_)) ==
    IF \E k \in 1..Len(Matching) : same(Matching[k])
    THEN CHOOSE k \in 1..Len(Matching) :
             /\ same(Matching[k])
             /\ \A m \in 1..(k - 1) : ~same(Matching[m])
    ELSE 0

\* The link a target should be titled after, among those that same() holds of:
\* the first with text, or the first when none has text.
TitleLink(same(_)) ==
    LET withText(l) == same(l) /\ l.text # EmptyTitle IN
    IF FirstWhere(withText) # 0 THEN Matching[FirstWhere(withText)]
    ELSE Matching[FirstWhere(same)]

\* C9 (as claimed): the targets returned are at most limit, one per URL, in
\* the order in which the URLs first occur; each is titled after the first
\* link to its URL that has text; no two have the same resolved url.
C9_OnePerUrl ==
    (list_result.done /\ links.ok) =>
        LET res == list_result.value
        IN  /\ Len(res) <= list_limit
            /\ \A a, b \in 1..Len(res) : a < b =>
                   /\ res[a].url # res[b].url
                   /\ FirstWhere(LAMBDA l : urljoin(BASE_URL, l.href) = res[a].url)
                        < FirstWhere(LAMBDA l : urljoin(BASE_URL, l.href) = res[b].url)
            /\ \A a \in 1..Len(res) :
                   res[a].title =
                       TargetOf(TitleLink(LAMBDA l : urljoin(BASE_URL, l.href) = res[a].url)).title


\* Places of the matching links whose href no earlier matching link has.
FirstPlaces ==
    SelectSeq([k \in 1..Len(Matching) |-> k],
              LAMBDA k : \A m \in 1..(k - 1) : Matching[m].href # Matching[k].href)

\* C9 (by href): what holds of the code when "URL" is read as the href
\* attribute as written in the page: one target per distinct href, in the
\* order of first occurrence, cut at limit, each titled after the first link
\* of that href that has text.
C9_OnePerHref ==
    (list_result.done /\ links.ok) =>
        LET res == list_result.value IN
        /\ Len(res) = Min(list_limit, Len(FirstPlaces))
        /\ \A a \in 1..Len(res) :
               LET href == Matching[FirstPlaces[a]].href IN
               /\ res[a].url = urljoin(BASE_URL, href)
               /\ res[a].title = TargetOf(TitleLink(LAMBDA l : l.href = href)).title

====
